---- MODULE Spec2Model ----
(***************************************************************************)
(* A model of Loki's SafeFormat (PrintfState and the write() sinks).       *)
(*                                                                         *)
(* Characters are their ASCII codes; strings are sequences of codes.       *)
(* The code only builds where size_t is unsigned int (ParseDecimalUInt     *)
(* takes width_ and prec_ by unsigned int&), so long, unsigned long and    *)
(* size_t are 32 bits wide.  A 32-bit pattern is held as its signed        *)
(* two's-complement representative: -1 stands for the unsigned value       *)
(* 2^32 - 1, which is also size_t(-1).                                     *)
(***************************************************************************)
EXTENDS Integers, Sequences, FiniteSets, TLC

VARIABLES
    kind,       \* which Device the PrintfState is bound to
    cap,        \* N of BufPrintf's Char (&buf)[N]; 0 for the other devices
    build,      \* how this build resolves what the language leaves undefined
    format,     \* the characters of the format string, terminator excluded
    tail,       \* what lies in memory behind the terminator
    before,     \* the character in memory in front of the format string
    alive,      \* the constructor returned (it did not throw)
    out,        \* the characters copied to the device, in order
    second,     \* device_.second: the remaining capacity of the buffer device
    format_,    \* cursor: index into the format memory (1 = first character)
    width_,
    prec_,
    flags_,
    result_,
    pointee,    \* the int a count-store pointer points to
    calls,      \* number of operator() calls made so far
    last        \* what the latest call did (observation only)

vars == <<kind, cap, build, format, tail, before, alive, out, second,
          format_, width_, prec_, flags_, result_, pointee, calls, last>>

-----------------------------------------------------------------------------
(* Characters *)

Chr ==
    (" " :> 32) @@ ("#" :> 35) @@ ("%" :> 37) @@ ("*" :> 42) @@ ("+" :> 43) @@
    ("-" :> 45) @@ ("." :> 46) @@
    ("0" :> 48) @@ ("1" :> 49) @@ ("2" :> 50) @@ ("3" :> 51) @@ ("4" :> 52) @@
    ("5" :> 53) @@ ("6" :> 54) @@ ("7" :> 55) @@ ("8" :> 56) @@ ("9" :> 57) @@
    ("A" :> 65) @@ ("E" :> 69) @@ ("F" :> 70) @@ ("G" :> 71) @@ ("X" :> 88) @@
    ("a" :> 97) @@ ("b" :> 98) @@ ("c" :> 99) @@ ("d" :> 100) @@ ("e" :> 101) @@
    ("f" :> 102) @@ ("g" :> 103) @@ ("h" :> 104) @@ ("i" :> 105) @@
    ("l" :> 108) @@ ("n" :> 110) @@ ("o" :> 111) @@ ("p" :> 112) @@
    ("s" :> 115) @@ ("u" :> 117) @@ ("x" :> 120)

\* a string literal: S(<<"%", "5", "d">>) is "%5d"
S(t) == [k \in 1..Len(t) |-> Chr[t[k]]]

Rep(c, n) == [k \in 1..n |-> c]

\* std::isdigit(c, std::locale()) in the classic locale
isdigit(c) == c >= Chr["0"] /\ c <= Chr["9"]

\* strchr(set, c) != 0: the terminator of `set` matches c = 0
strchr(set, c) == c = 0 \/ \E k \in 1..Len(set) : set[k] = c

LONG_MIN == -2147483647 - 1

EOF == -1

\* size_t(-1)
NoPrec == -1

\* unsigned comparison a < b of two 32-bit patterns
ULess(a, b) ==
    IF (a < 0) = (b < 0) THEN a < b ELSE b < 0

-----------------------------------------------------------------------------
(* The format memory *)

\* *p for a pointer p into the format memory; behind the tail the memory is zero
At(p) ==
    IF p < 1 THEN before
    ELSE IF p <= Len(format) THEN format[p]
    ELSE IF p = Len(format) + 1 THEN 0
    ELSE IF p - Len(format) - 1 <= Len(tail) THEN tail[p - Len(format) - 1]
    ELSE 0

\* the characters of [b, e)
Range(b, e) == [k \in 1..(e - b) |-> At(b + k - 1)]

\* position of the format string's terminator
Terminator == Len(format) + 1

-----------------------------------------------------------------------------
(* write(): the three devices *)

\* write(std::FILE*, ...) and write(std::string&, ...): append
writeAppend(s, chars) ==
    [s EXCEPT !.out = @ \o chars,
              !.writes = Append(@, [len |-> Len(chars), room |-> s.second, threw |-> FALSE])]

\* the test `from + s.second > to` of the buffer device.  A wrapped s.second
\* (held negative) makes the pointer sum overflow: what the comparison yields
\* then depends on the build.
bufThrows(sec, len) ==
    IF sec < 0 THEN build.wrapThrows ELSE sec > len

\* write(std::pair<Char*, std::size_t>&, ...)
writeBuf(s, chars) ==
    IF bufThrows(s.second, Len(chars))
    THEN [s EXCEPT !.thrown = TRUE,
                   !.writes = Append(@, [len |-> Len(chars), room |-> s.second, threw |-> TRUE])]
    ELSE [s EXCEPT !.out = @ \o chars,
                   !.second = @ - Len(chars),
                   !.writes = Append(@, [len |-> Len(chars), room |-> s.second, threw |-> FALSE])]

write(s, chars) ==
    IF kind = "buffer" THEN writeBuf(s, chars) ELSE writeAppend(s, chars)

-----------------------------------------------------------------------------------------------------------------------------------------------------
(* PrintfState.  A member function is an operator from the object's state   *)
(* s (a record) to its state afterwards.  s.thrown says an exception is     *)
(* propagating: every later step of the call is skipped.                    *)

\* result_ += x, unless write() threw
Counted(t, x) ==
    IF t.thrown THEN t ELSE [t EXCEPT !.result_ = @ + x]

Write_NoCount(s, chars) ==
    IF s.thrown \/ s.result_ < 0 THEN s ELSE write(s, chars)

Write(s, chars) ==
    IF s.thrown \/ s.result_ < 0 THEN s
    ELSE Counted(write(s, chars), Len(chars))

RECURSIVE Fill(_, _, _)
Fill(s, c, n) ==
    IF n <= 0 \/ s.thrown THEN s ELSE Fill(Write(s, <<c>>), c, n - 1)

ResetAll(s) ==
    [s EXCEPT !.asserts = IF s.result_ = EOF THEN @ \cup {"ResetAll"} ELSE @,
              !.width_ = 0,
              !.prec_ = NoPrec,
              !.flags_ = {}]

\* ++format_, unless the Write before it threw
StepOver(t) ==
    IF t.thrown THEN t ELSE [t EXCEPT !.format_ = @ + 1]

RECURSIVE AdvanceLoop_KeepBoth(_, _)
AdvanceLoop_KeepBoth(s, begin) ==
    IF s.thrown THEN s
    ELSE IF At(s.format_) = Chr["%"]
    THEN IF At(s.format_ + 1) # Chr["%"]
         THEN StepOver(Write(s, Range(begin, s.format_)))
         ELSE AdvanceLoop_KeepBoth(
                  Write([s EXCEPT !.format_ = @ + 2], Range(begin, s.format_ + 2)),
                  s.format_ + 2)
    ELSE IF At(s.format_) = 0
    THEN Write(s, Range(begin, s.format_))
    ELSE AdvanceLoop_KeepBoth([s EXCEPT !.format_ = @ + 1], begin)

\* the loop of Advance; begin is the start of the pending literal text
RECURSIVE AdvanceLoop(_, _)
AdvanceLoop(s, begin) ==
    IF s.thrown THEN s
    ELSE IF At(s.format_) = Chr["%"]
    THEN IF At(s.format_ + 1) # Chr["%"]
         THEN StepOver(Write(s, Range(begin, s.format_)))
         ELSE AdvanceLoop(
                  StepOver(Write([s EXCEPT !.format_ = @ + 1],
                                 Range(begin, s.format_ + 1))),
                  s.format_ + 2)
    ELSE IF At(s.format_) = 0
    THEN Write(s, Range(begin, s.format_))
    ELSE AdvanceLoop([s EXCEPT !.format_ = @ + 1], begin)

\* Advance, once ResetAll has run
AdvanceFrom(r) ==
    AdvanceLoop([r EXCEPT !.adv = r.format_, !.advOut = Len(r.out)], r.format_)

Advance(s) ==
    IF s.thrown THEN s ELSE AdvanceFrom(ResetAll(s))

Next_(s) ==
    IF s.thrown THEN s ELSE Advance([s EXCEPT !.format_ = @ + 1])

-----------------------------------------------------------------------------
(* Reading a directive *)

FlagOf(c) ==
    CASE c = Chr["-"] -> "leftJustify"
      [] c = Chr["+"] -> "showSignAlways"
      [] c = Chr[" "] -> "blank"
      [] c = Chr["#"] -> "alternateForm"
      [] c = Chr["0"] -> "fillZeros"
      [] OTHER -> "none"

RECURSIVE ReadFlags(_)
ReadFlags(s) ==
    IF FlagOf(At(s.format_)) = "none" THEN s
    ELSE ReadFlags([s EXCEPT !.flags_ = @ \cup {FlagOf(At(s.format_))},
                             !.format_ = @ + 1])

\* the do-while of ParseDecimalUInt: <<cursor, r>> once the digits are read
RECURSIVE ParseDigits(_, _)
ParseDigits(p, r) ==
    IF isdigit(At(p)) THEN ParseDigits(p + 1, r * 10 + (At(p) - Chr["0"]))
    ELSE <<p, r>>

\* dest = r, with the cursor behind the digits
Parsed(s, field, pr) ==
    [s EXCEPT ![field] = pr[2], !.format_ = pr[1]]

\* ParseDecimalUInt(width_) when field = "width_", (prec_) when "prec_"
ParseDecimalUInt(s, field) ==
    IF ~isdigit(At(s.format_)) THEN s
    ELSE Parsed(s, field, ParseDigits(s.format_, 0))

ReadWidth(s) == ParseDecimalUInt(s, "width_")

ReadPrecision(s) ==
    ParseDecimalUInt(
        [s EXCEPT !.asserts = IF At(s.format_) # Chr["."]
                              THEN @ \cup {"ReadPrecision"} ELSE @,
                  !.format_ = @ + 1],
        "prec_")

ReadModifiers(s) ==
    IF At(s.format_) = Chr["h"]
    THEN [s EXCEPT !.flags_ = @ \cup {"forceShort"}, !.format_ = @ + 1]
    ELSE IF At(s.format_) = Chr["l"]
    THEN [s EXCEPT !.format_ = @ + 1]
    ELSE s

\* if (*format_ == '.') ReadPrecision();
PrecisionIfDot(s) ==
    IF At(s.format_) = Chr["."] THEN ReadPrecision(s) ELSE s

ReadLeaders(s) ==
    ReadModifiers(PrecisionIfDot(ReadWidth(ReadFlags(s))))

-----------------------------------------------------------------------------
(* The integer renderer.  An unsigned long is split into two 16-bit halves *)
(* so that the division stays within the model checker's integers.         *)

HalfWord == 65536

\* the character of digit c: c += (c <= 9) ? '0' : hex1st - 10
DigitChar(c, hex1st) ==
    IF c <= 9 THEN c + Chr["0"] ELSE c + (hex1st - 10)

\* the loop of RenderWithoutSign(unsigned long): n / base and n % base, with
\* n = hi * 2^16 + lo
RECURSIVE RenderHalves(_, _, _, _)
RenderHalves(hi, lo, base, hex1st) ==
    IF hi \div base = 0 /\ ((hi % base) * HalfWord + lo) \div base = 0
    THEN <<DigitChar(((hi % base) * HalfWord + lo) % base, hex1st)>>
    ELSE Append(RenderHalves(hi \div base,
                             ((hi % base) * HalfWord + lo) \div base,
                             base, hex1st),
                DigitChar(((hi % base) * HalfWord + lo) % base, hex1st))

\* RenderWithoutSign(unsigned long n, ...): the digits [bufLast, bufEnd)
RenderWithoutSignU(n, base, uppercase) ==
    RenderHalves((n \div HalfWord) % HalfWord, n % HalfWord, base,
                 IF uppercase THEN Chr["A"] ELSE Chr["a"])

\* --(*save): the last digit's character, decremented
DecrementLast(d) == [d EXCEPT ![Len(d)] = @ - 1]

RenderWithoutSignL_NoFix(n, base, uppercase) ==
    IF n # LONG_MIN
    THEN RenderWithoutSignU(IF n < 0 THEN -n ELSE n, base, uppercase)
    ELSE RenderWithoutSignU(n + 1, base, uppercase)

\* RenderWithoutSign(long n, ...)
RenderWithoutSignL(n, base, uppercase) ==
    IF n # LONG_MIN
    THEN RenderWithoutSignU(IF n < 0 THEN -n ELSE n, base, uppercase)
    ELSE DecrementLast(RenderWithoutSignU(n + 1, base, uppercase))

-----------------------------------------------------------------------------
(* Rendering an integral argument *)

Has(s, flag) == flag \in s.flags_

BaseOf(formatChar) ==
    IF formatChar = Chr["o"] THEN 8
    ELSE IF formatChar = Chr["x"] \/ formatChar = Chr["X"] THEN 16
    ELSE 10

\* lines 230-244 of FormatWithCurrentFlags: the characters [bufLast, bufEnd)
Digits(formatChar, isSigned, i) ==
    IF formatChar = Chr["c"] THEN <<i % 256>>
    ELSE IF isSigned
    THEN RenderWithoutSignL(i, BaseOf(formatChar), formatChar = Chr["X"])
    ELSE RenderWithoutSignU(i, BaseOf(formatChar), formatChar = Chr["X"])

SignChar_PlusOverMinus(formatChar, isSigned, i, flags) ==
    IF formatChar = Chr["c"] \/ ~isSigned THEN 0
    ELSE IF "showSignAlways" \in flags THEN Chr["+"]
    ELSE IF i < 0 THEN Chr["-"]
    ELSE IF "blank" \in flags THEN Chr[" "]
    ELSE 0

\* lines 227 and 246-251 of FormatWithCurrentFlags
SignChar(formatChar, isSigned, i, flags) ==
    IF formatChar = Chr["c"] \/ ~isSigned THEN 0
    ELSE IF i < 0 THEN Chr["-"]
    ELSE IF "showSignAlways" \in flags THEN Chr["+"]
    ELSE IF "blank" \in flags THEN Chr[" "]
    ELSE 0

\* countZeros of lines 256-259
PrecZeros(formatChar, countDigits, prec) ==
    IF prec # NoPrec /\ ULess(countDigits, prec) /\ formatChar # Chr["c"]
    THEN prec - countDigits ELSE 0

CountBase_ZeroToo(formatChar, i, flags, countZeros) ==
    IF BaseOf(formatChar) # 10 /\ "alternateForm" \in flags
    THEN (IF BaseOf(formatChar) = 16 THEN 2 ELSE IF countZeros > 0 THEN 0 ELSE 1)
    ELSE 0

\* countBase of lines 260-262
CountBase(formatChar, i, flags, countZeros) ==
    IF BaseOf(formatChar) # 10 /\ "alternateForm" \in flags /\ i # 0
    THEN (IF BaseOf(formatChar) = 16 THEN 2 ELSE IF countZeros > 0 THEN 0 ELSE 1)
    ELSE 0

\* lines 254-264 of FormatWithCurrentFlags, given the digits and the sign
Counts(formatChar, i, flags, digits, signChar, countZeros) ==
    [ digits |-> digits, signChar |-> signChar, countZeros |-> countZeros,
      countBase |-> CountBase(formatChar, i, flags, countZeros),
      totalPrintable |-> Len(digits) + countZeros
                         + CountBase(formatChar, i, flags, countZeros)
                         + (IF signChar # 0 THEN 1 ELSE 0) ]

FieldOf(formatChar, i, flags, prec, digits, signChar) ==
    Counts(formatChar, i, flags, digits, signChar,
           PrecZeros(formatChar, Len(digits), prec))

\* lines 230-264 of FormatWithCurrentFlags: the digits, the sign and the
\* counts of the field, for conversion character formatChar (p already
\* rewritten to x, with isSigned forced)
Field(formatChar, isSigned, i, flags, prec) ==
    FieldOf(formatChar, i, flags, prec,
            Digits(formatChar, isSigned, i),
            SignChar(formatChar, isSigned, i, flags))

\* width_ - totalPrintable where width_ > totalPrintable, else 0
Excess(width, totalPrintable) ==
    IF ULess(totalPrintable, width) THEN width - totalPrintable ELSE 0

\* countPadLeft and countPadRight of lines 265-274
PadLeft(width, totalPrintable, flags) ==
    IF "leftJustify" \in flags THEN 0 ELSE Excess(width, totalPrintable)

PadRight(width, totalPrintable, flags) ==
    IF "leftJustify" \in flags THEN Excess(width, totalPrintable) ELSE 0

Padding_ZerosDespitePrec(width, totalPrintable, countZeros, flags, prec) ==
    IF "fillZeros" \in flags
    THEN [ countPadLeft |-> 0,
           countZeros |-> PadLeft(width, totalPrintable, flags),
           countPadRight |-> PadRight(width, totalPrintable, flags) ]
    ELSE [ countPadLeft |-> PadLeft(width, totalPrintable, flags),
           countZeros |-> countZeros,
           countPadRight |-> PadRight(width, totalPrintable, flags) ]

\* lines 265-279 of FormatWithCurrentFlags
Padding(width, totalPrintable, countZeros, flags, prec) ==
    IF "fillZeros" \in flags /\ prec = NoPrec
    THEN [ countPadLeft |-> 0,
           countZeros |-> PadLeft(width, totalPrintable, flags),
           countPadRight |-> PadRight(width, totalPrintable, flags) ]
    ELSE [ countPadLeft |-> PadLeft(width, totalPrintable, flags),
           countZeros |-> countZeros,
           countPadRight |-> PadRight(width, totalPrintable, flags) ]

\* if (signChar != 0) Write(&signChar, &signChar + 1);
EmitSign(s, signChar) ==
    IF signChar # 0 THEN Write(s, <<signChar>>) ELSE s

\* if (countBase > 0) Fill('0', 1); if (countBase == 2) Fill(formatChar, 1);
EmitBase(s, countBase, formatChar) ==
    IF countBase = 2 THEN Fill(Fill(s, Chr["0"], 1), formatChar, 1)
    ELSE IF countBase > 0 THEN Fill(s, Chr["0"], 1)
    ELSE s

\* lines 281-289 of FormatWithCurrentFlags: print to the device, then Next()
Emit(s, p, f, formatChar) ==
    Next_(
      Fill(
        Write(
          Fill(
            EmitBase(
              EmitSign(Fill(s, Chr[" "], p.countPadLeft), f.signChar),
              f.countBase, formatChar),
            Chr["0"], p.countZeros),
          f.digits),
        Chr[" "], p.countPadRight))

\* lines 265-289, given the field
FormatField(s, formatChar, f) ==
    Emit([s EXCEPT !.rw = s.width_, !.rp = s.prec_, !.rf = s.flags_],
         Padding(s.width_, f.totalPrintable, f.countZeros, s.flags_, s.prec_),
         f, formatChar)

\* lines 220-289, for a valid formatChar
FormatValid(s, formatChar, isSigned, i) ==
    FormatField(s, formatChar, Field(formatChar, isSigned, i, s.flags_, s.prec_))

FormatAs_AdvancesOnError(s, c0, formatChar, i) ==
    IF ~strchr(S(<<"c", "d", "i", "u", "o", "x", "X">>), formatChar)
    THEN Next_([s EXCEPT !.conv = c0, !.ri = i, !.result_ = -1])
    ELSE FormatValid(
             [s EXCEPT !.conv = c0, !.ri = i,
                       !.flags_ = IF c0 = Chr["p"] THEN @ \cup {"alternateForm"}
                                  ELSE IF c0 = Chr["c"] THEN @ \ {"fillZeros"}
                                  ELSE @],
             formatChar,
             c0 = Chr["d"] \/ c0 = Chr["i"] \/ c0 = Chr["p"],
             i)

\* lines 209-219 and 233: formatChar is c0, or x for p
FormatAs(s, c0, formatChar, i) ==
    IF ~strchr(S(<<"c", "d", "i", "u", "o", "x", "X">>), formatChar)
    THEN [s EXCEPT !.conv = c0, !.ri = i, !.result_ = -1]
    ELSE FormatValid(
             [s EXCEPT !.conv = c0, !.ri = i,
                       !.flags_ = IF c0 = Chr["p"] THEN @ \cup {"alternateForm"}
                                  ELSE IF c0 = Chr["c"] THEN @ \ {"fillZeros"}
                                  ELSE @],
             formatChar,
             c0 = Chr["d"] \/ c0 = Chr["i"] \/ c0 = Chr["p"],
             i)

FormatWithCurrentFlags(s, i) ==
    FormatAs(s, At(s.format_),
             IF At(s.format_) = Chr["p"] THEN Chr["x"] ELSE At(s.format_), i)

ULongRender_AlwaysShort(s, i) ==
    FormatWithCurrentFlags(s, IF Has(s, "forceShort") THEN i % HalfWord ELSE i)

\* lines 110-119 of operator()(unsigned long): the flags, the width and the
\* precision are read
ULongRender(s, i) ==
    FormatWithCurrentFlags(
        s,
        IF Has(s, "forceShort")
           /\ At(s.format_) \in {Chr["x"], Chr["X"], Chr["u"], Chr["o"]}
        THEN i % HalfWord ELSE i)

\* lines 99-120: the flags and the width are read
ULongPrecision(s, i) ==
    IF At(s.format_) = Chr["."] /\ At(s.format_ + 1) = Chr["*"]
    THEN [s EXCEPT !.prec_ = i, !.format_ = @ + 2, !.deferred = "prec"]
    ELSE ULongRender(ReadModifiers(PrecisionIfDot(s)), i)

ULongWidth_DropsStar(s, i) ==
    IF At(s.format_) = Chr["*"]
    THEN [s EXCEPT !.format_ = @ + 1, !.deferred = "width"]
    ELSE ULongPrecision(ReadWidth(s), i)

\* lines 92-120: the flags are read
ULongWidth(s, i) ==
    IF At(s.format_) = Chr["*"]
    THEN [s EXCEPT !.width_ = i, !.format_ = @ + 1, !.deferred = "width"]
    ELSE ULongPrecision(ReadWidth(s), i)

\* operator()(unsigned long i) without its first line
ULongBody(s, i) == ULongWidth(ReadFlags(s), i)

OpULong_NoGuard(s, i) == ULongBody(s, i)

\* PrintfState& operator()(unsigned long i); the forwarders of the other
\* integral types cast to unsigned long and come here
OpULong(s, i) ==
    IF s.result_ = -1 THEN s ELSE ULongBody(s, i)

\* PrintfState& operator()(const void *const p)
OpVoidPtr(s, p) == OpULong(s, p)

MinLen_IgnoresPrec(len, prec) == len

\* std::min(strlen(s), prec_), unsigned
MinLen(len, prec) == IF ULess(prec, len) THEN prec ELSE len

\* lines 163-173 of operator()(const char*)
PutString(s, txt) ==
    IF ULess(Len(txt), s.width_)
    THEN IF Has(s, "leftJustify")
         THEN Fill(Write(s, txt), Chr[" "], s.width_ - Len(txt))
         ELSE Write(Fill(s, Chr[" "], s.width_ - Len(txt)), txt)
    ELSE Write(s, txt)

CStrBody_AnyConv(s, str) ==
    IF At(s.format_) = Chr["p"] THEN FormatWithCurrentFlags(s, str.addr)
    ELSE Next_(PutString(
                   [s EXCEPT !.conv = At(s.format_), !.rw = s.width_,
                             !.rp = s.prec_, !.rf = s.flags_],
                   SubSeq(str.chars, 1, MinLen(Len(str.chars), s.prec_))))

\* lines 153-175 of operator()(const char*): the leaders are read
CStrBody(s, str) ==
    IF At(s.format_) = Chr["p"] THEN FormatWithCurrentFlags(s, str.addr)
    ELSE IF At(s.format_) # Chr["s"]
    THEN [s EXCEPT !.conv = At(s.format_), !.result_ = -1]
    ELSE Next_(PutString(
                   [s EXCEPT !.conv = At(s.format_), !.rw = s.width_,
                             !.rp = s.prec_, !.rf = s.flags_],
                   SubSeq(str.chars, 1, MinLen(Len(str.chars), s.prec_))))

\* PrintfState& operator()(const char *const s)
OpCStr(s, str) ==
    IF s.result_ = -1 THEN s ELSE CStrBody(ReadLeaders(s), str)

StoreCountBody_NoStore(s, pi) ==
    IF At(s.format_) = Chr["p"] THEN FormatWithCurrentFlags(s, pi)
    ELSE IF At(s.format_) # Chr["n"]
    THEN [s EXCEPT !.conv = At(s.format_), !.result_ = -1]
    ELSE Next_([s EXCEPT !.conv = At(s.format_)])

\* lines 192-204 of StoreCountHelper: the leaders are read
StoreCountBody(s, pi) ==
    IF At(s.format_) = Chr["p"] THEN FormatWithCurrentFlags(s, pi)
    ELSE IF At(s.format_) # Chr["n"]
    THEN [s EXCEPT !.conv = At(s.format_), !.result_ = -1]
    ELSE Next_([s EXCEPT !.conv = At(s.format_),
                         !.asserts = IF pi = 0 THEN @ \cup {"StoreCountHelper"} ELSE @,
                         !.pointee = s.result_])

\* StoreCountHelper(T *const pi), reached from operator()(int*), (short*), (long*)
StoreCountHelper(s, pi) ==
    IF s.result_ = -1 THEN s ELSE StoreCountBody(ReadLeaders(s), pi)

-----------------------------------------------------------------------------
(* Floating point.  A double is +/-(ip + 1/2), written [neg, ip], ip in     *)
(* 1..8: exactly representable, one decimal digit in front of the point.    *)
(* snprintf is the C library's: it reads the directive text it is handed.   *)

FmtBufSize == 128

ResultBufSize == 1024

Ch(d, k) == IF k >= 1 /\ k <= Len(d) THEN d[k] ELSE 0

\* strlen: the index of the first zero of d, less one
strlen(d) ==
    IF \A k \in 1..Len(d) : d[k] # 0 THEN Len(d)
    ELSE (CHOOSE k \in 1..Len(d) :
              d[k] = 0 /\ \A j \in 1..(k - 1) : d[j] # 0) - 1

\* a character array read as a C string: up to the first zero
CStr(d) == SubSeq(d, 1, strlen(d))

\* the first position from k on that holds no flag character
SkipFlags(d, k) ==
    CHOOSE p \in k..(Len(d) + 1) :
        /\ FlagOf(Ch(d, p)) = "none"
        /\ \A j \in k..(p - 1) : FlagOf(d[j]) # "none"

RECURSIVE SeqDigits(_, _, _)
SeqDigits(d, k, r) ==
    IF isdigit(Ch(d, k)) THEN SeqDigits(d, k + 1, r * 10 + (d[k] - Chr["0"]))
    ELSE <<k, r>>

\* the directive snprintf reads in the C string d, which starts with %:
\* k1 is behind the flags, wd = <<position, width>> behind the width,
\* pd = <<position, precision>> behind the precision
DirectiveOf(d, k1, width, pd) ==
    [ flags |-> {FlagOf(d[j]) : j \in 2..(k1 - 1)},
      width |-> width,
      prec  |-> pd[2],
      conv  |-> IF Ch(d, pd[1]) \in {Chr["h"], Chr["l"]}
                THEN Ch(d, pd[1] + 1) ELSE Ch(d, pd[1]),
      last  |-> IF Ch(d, pd[1]) \in {Chr["h"], Chr["l"]}
                THEN pd[1] + 1 ELSE pd[1] ]

DirectivePrec(d, k1, wd) ==
    DirectiveOf(d, k1, wd[2],
                IF Ch(d, wd[1]) = Chr["."] THEN SeqDigits(d, wd[1] + 1, 0)
                ELSE <<wd[1], NoPrec>>)

DirectiveWidth(d, k1) == DirectivePrec(d, k1, SeqDigits(d, k1, 0))

Directive(d) == DirectiveWidth(d, SkipFlags(d, 2))

RoundHalfEven(ip) == IF ip % 2 = 1 THEN ip + 1 ELSE ip

\* the digits of the value in style f with precision p
FixedText(ip, p, alt) ==
    IF p = 0
    THEN RenderWithoutSignU(RoundHalfEven(ip), 10, FALSE)
         \o (IF alt THEN <<Chr["."]>> ELSE <<>>)
    ELSE RenderWithoutSignU(ip, 10, FALSE) \o <<Chr["."], Chr["5"]>>
         \o Rep(Chr["0"], p - 1)

\* the precision of style f that renders the value in style conv
FixedPrec(conv, p, alt) ==
    IF conv \in {Chr["g"], Chr["G"]}
    THEN (IF p <= 1 THEN 0 ELSE IF alt THEN p - 1 ELSE 1)
    ELSE p

FloatText(n, conv, prec, alt) ==
    FixedText(n.ip, FixedPrec(conv, IF prec = NoPrec THEN 6 ELSE prec, alt), alt)
    \o (IF conv \in {Chr["e"], Chr["E"]}
        THEN <<conv, Chr["+"], Chr["0"], Chr["0"]>> ELSE <<>>)

FloatSign(n, flags) ==
    IF n.neg THEN <<Chr["-"]>>
    ELSE IF "showSignAlways" \in flags THEN <<Chr["+"]>>
    ELSE IF "blank" \in flags THEN <<Chr[" "]>>
    ELSE <<>>

FloatPadded(flags, sign, body, pad) ==
    IF "leftJustify" \in flags THEN sign \o body \o Rep(Chr[" "], pad)
    ELSE IF "fillZeros" \in flags THEN sign \o Rep(Chr["0"], pad) \o body
    ELSE Rep(Chr[" "], pad) \o sign \o body

FloatField(dir, sign, body) ==
    FloatPadded(dir.flags, sign, body,
                IF dir.width > Len(sign) + Len(body)
                THEN dir.width - Len(sign) - Len(body) ELSE 0)

\* what snprintf returns for the text it renders, and what of it fits
\* resultBuf with its terminator
Stored(text) ==
    [ stored |-> Len(text),
      text |-> SubSeq(text, 1, IF Len(text) < ResultBufSize
                               THEN Len(text) ELSE ResultBufSize - 1) ]

SnprintfDirective(d, dir, n) ==
    IF dir.conv # 0 /\ dir.last = Len(d)
    THEN Stored(FloatField(dir, FloatSign(n, dir.flags),
                           FloatText(n, dir.conv, dir.prec,
                                     "alternateForm" \in dir.flags)))
    ELSE IF build.strictLibc
    THEN [stored |-> -1, text |-> <<>>]
    ELSE Stored(d)

SnprintfC(d, n) ==
    IF d = <<>> \/ d[1] # Chr["%"] THEN Stored(d)
    ELSE SnprintfDirective(d, Directive(d), n)

\* snprintf(resultBuf, sizeof resultBuf, fmtBuf, n): what it returns and the
\* text it leaves in resultBuf
Snprintf(fmtBuf, n) == SnprintfC(CStr(fmtBuf), n)

\* lines 325-330 of PrintFloatingPoint
FloatOut(s, r) ==
    IF r.stored < 0 THEN [s EXCEPT !.stored = r.stored, !.result_ = -1]
    ELSE Advance(Write([s EXCEPT !.stored = r.stored], CStr(r.text)))

\* lines 306-330 of PrintFloatingPoint: the leaders are read
FloatBody(s, fmt, n) ==
    IF ~strchr(S(<<"e", "E", "f", "g", "G">>), At(s.format_))
    THEN [s EXCEPT !.conv = At(s.format_), !.result_ = -1]
    ELSE IF s.format_ + 1 >= fmt + FmtBufSize
    THEN [s EXCEPT !.conv = At(s.format_), !.format_ = @ + 1, !.result_ = -1]
    ELSE FloatOut([s EXCEPT !.conv = At(s.format_), !.format_ = @ + 1],
                  Snprintf(Range(fmt, s.format_ + 1), n))

PrintFloatingPoint(s, n) ==
    FloatBody(ReadLeaders([s EXCEPT !.asserts = IF At(s.format_ - 1) # Chr["%"]
                                                THEN @ \cup {"PrintFloatingPoint"}
                                                ELSE @]),
              s.format_ - 1, n)

\* PrintfState& operator()(double n)
OpDouble(s, n) ==
    IF s.result_ = -1 THEN s ELSE PrintFloatingPoint(s, n)

-----------------------------------------------------------------------------
(* Inputs *)

MaxCalls == 2

MaxCap == 2

MaxStar == 5

Formats ==
    { S(<<>>),
      S(<<"a", "b">>),
      S(<<"a", "b", "c">>),
      S(<<"%", "d">>),
      S(<<"%", "i">>),
      S(<<"%", "u">>),
      S(<<"%", "5", "d">>),
      S(<<"a", "%", "5", "d", "b">>),
      S(<<"%", "-", "5", "d">>),
      S(<<"%", "0", "5", "d">>),
      S(<<"%", ".", "3", "d">>),
      S(<<"%", "0", "5", ".", "3", "d">>),
      S(<<"%", "0", "5", ".", "d">>),
      S(<<"%", "+", "d">>),
      S(<<"%", " ", "d">>),
      S(<<"%", "+", "0", "5", "d">>),
      S(<<"%", " ", "+", "i">>),
      S(<<"%", "+", "u">>),
      S(<<"%", " ", "c">>),
      S(<<"%", "#", "x">>),
      S(<<"%", "#", "d">>),
      S(<<"%", "#", "0", "5", "X">>),
      S(<<"%", "#", "o">>),
      S(<<"%", "#", ".", "3", "o">>),
      S(<<"%", "-", "#", "5", "o">>),
      S(<<"%", "h", "x">>),
      S(<<"%", "h", "d">>),
      S(<<"%", "h", "u">>),
      S(<<"%", "l", "x">>),
      S(<<"%", "l", "u">>),
      S(<<"%", "c">>),
      S(<<"%", "s">>),
      S(<<"%", ".", "3", "s">>),
      S(<<"%", "5", "s">>),
      S(<<"%", "-", "5", ".", "s">>),
      S(<<"%", "%">>),
      S(<<"a", "%", "%", "b", "%", "d", "%", "%">>),
      S(<<"%", "%", "%">>),
      S(<<"%">>),
      S(<<"a", "b", "%">>),
      S(<<"a", "%", "-", "5">>),
      S(<<"%", "*", "d">>),
      S(<<"%", ".", "*", "d">>),
      S(<<"%", "-", "*", "d">>),
      S(<<"%", "-", "*", ".", "*", "d">>),
      S(<<"%", "*", "f">>),
      S(<<"%", "n">>),
      S(<<"a", "b", "%", "n", "%", "d">>),
      S(<<"a", "%", "n", "b">>),
      S(<<"%", "p">>),
      S(<<"%", "f">>),
      S(<<"%", "5", ".", "1", "e">>),
      S(<<"%", "1", "0", "3", "0", "f">>),
      S(<<"%">>) \o Rep(Chr["0"], FmtBufSize - 2) \o S(<<"f">>),
      S(<<"%">>) \o Rep(Chr["0"], FmtBufSize - 3) \o S(<<"f">>),
      S(<<"%", "g">>),
      S(<<"a", "%", "d", "b", "%", "s", "c">>),
      S(<<"%", "d", "%", "f">>) }

\* the integral arguments, as 32-bit patterns
Integrals == {0, 3, 5, 42, 255, -42, 65541, 2147483647, LONG_MIN}

\* const char* arguments: where the string lies and what it holds
CStrings ==
    { [addr |-> 4096, chars |-> S(<<"h", "e", "l", "l", "o">>)],
      [addr |-> 8192, chars |-> S(<<>>)] }

\* int*, short* and long* arguments
CountPtrs == {12288}

\* const void* arguments
VoidPtrs == {4}

Doubles == { [neg |-> FALSE, ip |-> 1], [neg |-> TRUE, ip |-> 2] }

\* what the program does not control: the bytes around the format string,
\* and whether the C library's snprintf rejects a directive that has no
\* conversion character (-1) or copies it
Environments ==
    { [before |-> 0, tail |-> S(<<>>), strictLibc |-> TRUE],
      [before |-> Chr["%"], tail |-> S(<<"%", "d">>), strictLibc |-> FALSE] }

Devices ==
    { [kind |-> k, cap |-> 0, wrapThrows |-> FALSE] : k \in {"stream", "string"} }
    \cup { [kind |-> "buffer", cap |-> n, wrapThrows |-> w] :
              n \in 0..MaxCap, w \in BOOLEAN }

-----------------------------------------------------------------------------
(* The state machine *)

\* what a call observes besides the object's state
Fresh ==
    [ thrown |-> FALSE, asserts |-> {}, writes |-> <<>>, adv |-> 0, advOut |-> 0,
      conv |-> -1, ri |-> 0, rw |-> 0, rp |-> NoPrec, rf |-> {},
      deferred |-> "none", stored |-> 0 ]

\* the object's state as the member functions see it, at the start of a call
St ==
    [ out |-> out, second |-> second, format_ |-> format_, width_ |-> width_,
      prec_ |-> prec_, flags_ |-> flags_, result_ |-> result_,
      pointee |-> pointee ] @@ Fresh

\* the initializer list of the constructor
St0(n) ==
    [ out |-> <<>>, second |-> n, format_ |-> 1, width_ |-> 0,
      prec_ |-> NoPrec, flags_ |-> {}, result_ |-> 0, pointee |-> 0 - 7 ] @@ Fresh

Seen(op, arg, pre, t) ==
    [ op |-> op, arg |-> arg, pre |-> pre,
      thrown |-> t.thrown, asserts |-> t.asserts, writes |-> t.writes,
      adv |-> t.adv, advOut |-> t.advOut, conv |-> t.conv, ri |-> t.ri,
      rw |-> t.rw, rp |-> t.rp, rf |-> t.rf, deferred |-> t.deferred,
      stored |-> t.stored ]

Pre(s) ==
    [ out |-> s.out, second |-> s.second, format_ |-> s.format_,
      width_ |-> s.width_, prec_ |-> s.prec_, flags_ |-> s.flags_,
      result_ |-> s.result_, pointee |-> s.pointee ]

\* the constructor ends (returns or throws) with the object in state t
Constructed(s0, t) ==
    /\ alive = ~t.thrown
    /\ out = t.out
    /\ second = t.second
    /\ format_ = t.format_
    /\ width_ = t.width_
    /\ prec_ = t.prec_
    /\ flags_ = t.flags_
    /\ result_ = t.result_
    /\ pointee = t.pointee
    /\ calls = 0
    /\ last = Seen("ctor", 0, Pre(s0), t)

\* PrintfState(Device dev, const Char* format), reached through Printf,
\* FPrintf, SPrintf, XPrintf and BufPrintf
Init ==
    \E f \in Formats, m \in Environments, d \in Devices :
        /\ kind = d.kind
        /\ cap = d.cap
        /\ build = [wrapThrows |-> d.wrapThrows, strictLibc |-> m.strictLibc]
        /\ format = f
        /\ tail = m.tail
        /\ before = m.before
        /\ Constructed(St0(d.cap), Advance(St0(d.cap)))

\* a call of operator() returns (or throws) with the object in state t
Call(op, arg, t) ==
    /\ alive
    /\ calls < MaxCalls
    /\ t.deferred # "none" => (arg >= 0 /\ arg <= MaxStar)
    /\ out' = t.out
    /\ second' = t.second
    /\ format_' = t.format_
    /\ width_' = t.width_
    /\ prec_' = t.prec_
    /\ flags_' = t.flags_
    /\ result_' = t.result_
    /\ pointee' = t.pointee
    /\ calls' = calls + 1
    /\ last' = Seen(op, arg, Pre(St), t)
    /\ UNCHANGED <<kind, cap, build, format, tail, before, alive>>

Integral == \E i \in Integrals : Call("integral", i, OpULong(St, i))

VoidPtr == \E p \in VoidPtrs : Call("voidptr", p, OpVoidPtr(St, p))

CString == \E str \in CStrings : Call("cstring", str, OpCStr(St, str))

CountStore == \E pi \in CountPtrs : Call("countptr", pi, StoreCountHelper(St, pi))

Double == \E n \in Doubles : Call("double", n, OpDouble(St, n))

Next == Integral \/ VoidPtr \/ CString \/ CountStore \/ Double

Spec == Init /\ [][Next]_vars

-----------------------------------------------------------------------------
(* Vocabulary of the properties *)

\* the latest call was an operator() call on a PrintfState not yet failed
Fed(op) == last.op = op /\ last.pre.result_ # -1

\* what the latest call wrote before it advanced to the next directive
Rendered == SubSeq(out, Len(last.pre.out) + 1, last.advOut)

\* what the latest call's scan for the next directive wrote
Scanned == SubSeq(out, last.advOut + 1, Len(out))

\* the literal text that lies between position p and the next directive (or
\* the end of the string), every %% read as one %
RECURSIVE LitText(_)
LitText(p) ==
    IF At(p) = 0 THEN <<>>
    ELSE IF At(p) = Chr["%"]
    THEN IF At(p + 1) = Chr["%"] THEN <<Chr["%"]>> \o LitText(p + 2) ELSE <<>>
    ELSE <<At(p)>> \o LitText(p + 1)

\* whether that text ends at a directive, and where the cursor then waits:
\* behind the directive's %, or on the terminator
RECURSIVE LitOpens(_)
LitOpens(p) ==
    IF At(p) = 0 THEN FALSE
    ELSE IF At(p) = Chr["%"]
    THEN IF At(p + 1) = Chr["%"] THEN LitOpens(p + 2) ELSE TRUE
    ELSE LitOpens(p + 1)

RECURSIVE LitStop(_)
LitStop(p) ==
    IF At(p) = 0 THEN p
    ELSE IF At(p) = Chr["%"]
    THEN IF At(p + 1) = Chr["%"] THEN LitStop(p + 2) ELSE p + 1
    ELSE LitStop(p + 1)

IntegralConvs == {Chr[c] : c \in {"c", "d", "i", "u", "o", "x", "X", "p"}}

FloatConvs == {Chr[c] : c \in {"e", "E", "f", "g", "G"}}

\* the conversion characters an argument of each kind is meant for
Accepts(op) ==
    CASE op = "integral" -> IntegralConvs
      [] op = "voidptr"  -> IntegralConvs
      [] op = "cstring"  -> {Chr["s"], Chr["p"]}
      [] op = "countptr" -> {Chr["n"], Chr["p"]}
      [] op = "double"   -> FloatConvs
      [] OTHER           -> {}

IsDecimal(d) == Len(d) >= 1 /\ \A k \in 1..Len(d) : isdigit(d[k])

\* decimal parse of a digit string, as the negated magnitude (so that 2^31
\* is in range); 1 when the number does not fit 32 bits
RECURSIVE NegParseFrom(_, _, _)
NegParseFrom(d, k, r) ==
    IF k > Len(d) THEN r
    ELSE LET v == d[k] - Chr["0"]
         IN  IF r < -214748364 \/ (r = -214748364 /\ v > 8) THEN 1
             ELSE NegParseFrom(d, k + 1, r * 10 - v)

NegParse(d) == NegParseFrom(d, 1, 0)

LeaderChars ==
    {Chr[c] : c \in {"-", "+", " ", "#", "0", "1", "2", "3", "4", "5", "6", "7",
                      "8", "9", "."}}

-----------------------------------------------------------------------------
(* Properties *)

\* C1: once result_ is the error sentinel -1, any further operator() call of
\* any kind leaves result_ at -1 and changes neither the device, the cursor,
\* width_, prec_, flags_ nor the count-store pointee.
C1_SentinelIsTerminal ==
    [][result_ = -1 =>
         /\ result_' = -1
         /\ UNCHANGED <<out, second, format_, width_, prec_, flags_, pointee>>]_vars

\* a call was made on a PrintfState that had already failed
C1_Witness ==
    /\ last.op = "integral"
    /\ last.pre.result_ = -1
    /\ last.pre.flags_ # {}
    /\ result_ = -1

\* C2 (as claimed): a PrintfState bound to a buffer of capacity N never copies
\* more than N characters into it, and the remaining capacity never wraps.
C2_BufferNeverOverrun ==
    kind = "buffer" => (Len(out) <= cap /\ second >= 0)

\* C3 (as claimed): a write longer than the remaining capacity throws on the
\* buffer device (and copies nothing past the capacity), and succeeds on the
\* stream and string devices.
C3_OversizeWriteThrows ==
    \A k \in 1..Len(last.writes) :
        LET w == last.writes[k]
        IN  (w.room >= 0 /\ w.len > w.room) =>
                /\ kind = "buffer" => (w.threw /\ Len(out) <= cap)
                /\ kind # "buffer" => ~w.threw

\* C4: an argument fed where the directive's conversion character is one its
\* kind is not meant for sets result_ to -1, writes nothing, keeps what was
\* written before and throws nothing.
C4_KindMismatchFails ==
    \A op \in {"integral", "voidptr", "cstring", "countptr", "double"} :
        (Fed(op) /\ last.conv > 0 /\ last.conv \notin Accepts(op)) =>
            /\ result_ = -1
            /\ out = last.pre.out
            /\ ~last.thrown

\* a C string was fed where %d is open, after some text was written
C4_Witness ==
    /\ Fed("cstring")
    /\ last.conv = Chr["d"]
    /\ result_ = -1
    /\ Len(out) > 0

\* C5: unless it is the sentinel -1, result_ is the number of characters
\* written to the device since construction; it is never below -1.
C5_ResultCountsOutput ==
    /\ result_ >= -1
    /\ result_ # -1 => result_ = Len(out)

\* a padded field and literal text were written and counted
C5_Witness ==
    /\ Fed("integral")
    /\ last.rw = 5
    /\ Len(Rendered) = 5
    /\ Len(Scanned) > 0
    /\ result_ = 7

\* C6: a scan of literal text writes every %% as one % and the other
\* characters as they are, in order, and goes on past each %% to the next
\* directive or to the end of the string.
C6_PercentPercent ==
    (alive /\ last.adv # 0 /\ ~last.thrown /\ result_ # -1) =>
        /\ Scanned = LitText(last.adv)
        /\ format_ = LitStop(last.adv)

\* a %% was scanned behind a rendered directive
C6_Witness ==
    /\ alive /\ ~last.thrown /\ result_ # -1
    /\ Fed("integral")
    /\ last.adv # 0
    /\ At(last.adv) = Chr["%"]
    /\ At(last.adv + 1) = Chr["%"]
    /\ Scanned = <<Chr["%"]>>

\* a field as text: sign and base prefix, then precision zeros and digits
C7_Text(f, c) ==
    [ head |-> (IF f.signChar # 0 THEN <<f.signChar>> ELSE <<>>)
               \o (IF f.countBase > 0 THEN <<Chr["0"]>> ELSE <<>>)
               \o (IF f.countBase = 2 THEN <<c>> ELSE <<>>),
      rest |-> Rep(Chr["0"], f.countZeros) \o f.digits ]

\* the field of the latest integral rendering
C7_Field ==
    C7_Text(Field(last.conv, last.conv \in {Chr["d"], Chr["i"]}, last.ri,
                  last.rf, last.rp),
            last.conv)

C7_Applies ==
    /\ Fed("integral")
    /\ last.deferred = "none"
    /\ ~last.thrown
    /\ result_ # -1
    /\ last.conv \in {Chr[c] : c \in {"d", "i", "u", "o", "x", "X"}}
    /\ last.rw > Len(C7_Field.head) + Len(C7_Field.rest)

\* field F padded to width w as the claim says
C7_Padded(F, w, flags, prec) ==
    IF "leftJustify" \in flags
    THEN F.head \o F.rest \o Rep(Chr[" "], w - Len(F.head) - Len(F.rest))
    ELSE IF "fillZeros" \in flags /\ prec = NoPrec
    THEN F.head \o Rep(Chr["0"], w - Len(F.head) - Len(F.rest)) \o F.rest
    ELSE Rep(Chr[" "], w - Len(F.head) - Len(F.rest)) \o F.head \o F.rest

C7_Example(fmt, i, text) ==
    (format = fmt /\ calls = 1 /\ Fed("integral") /\ last.arg = i /\ ~last.thrown)
        => Rendered = text

\* C7: an integer field narrower than the width is written as exactly width
\* characters: spaces to the right under left-justify; otherwise to the left,
\* zeros behind the sign and prefix when zero-fill is set and no precision
\* was given, spaces in every other case.
C7_WidthPadding ==
    /\ C7_Applies => Rendered = C7_Padded(C7_Field, last.rw, last.rf, last.rp)
    /\ C7_Applies => Len(Rendered) = last.rw
    /\ C7_Example(S(<<"%", "5", "d">>), 42, S(<<" ", " ", " ", "4", "2">>))
    /\ C7_Example(S(<<"%", "-", "5", "d">>), 42, S(<<"4", "2", " ", " ", " ">>))
    /\ C7_Example(S(<<"%", "0", "5", "d">>), 42, S(<<"0", "0", "0", "4", "2">>))
    /\ C7_Example(S(<<"%", ".", "3", "d">>), 5, S(<<"0", "0", "5">>))

\* zero-fill was set together with a precision, and the field was padded
C7_Witness ==
    /\ C7_Applies
    /\ "fillZeros" \in last.rf
    /\ last.rp = 3
    /\ Len(Rendered) = 5

\* the latest call rendered an integral argument under a plain %d or %i
C8_Applies ==
    /\ Fed("integral")
    /\ ~last.thrown
    /\ At(last.pre.format_) \in {Chr["d"], Chr["i"]}
    /\ At(last.pre.format_ - 1) = Chr["%"]
    /\ last.pre.width_ = 0 /\ last.pre.prec_ = NoPrec /\ last.pre.flags_ = {}

\* C8: under a plain %d or %i every signed long n, LONG_MIN included, is
\* written as a '-' exactly when n < 0, followed by decimal digits that read
\* back as n.
C8_DecimalRoundTrip ==
    C8_Applies =>
        LET n == last.arg
            d == IF n < 0 THEN Tail(Rendered) ELSE Rendered
        IN  /\ Len(Rendered) >= 1
            /\ n < 0 => Rendered[1] = Chr["-"]
            /\ IsDecimal(d)
            /\ NegParse(d) = (IF n < 0 THEN n ELSE -n)

\* LONG_MIN was rendered
C8_Witness ==
    /\ C8_Applies
    /\ last.arg = LONG_MIN
    /\ Len(Rendered) = 11

\* the cursor waits in a directive that the end of the string cuts short
C9_Incomplete ==
    /\ alive /\ ~last.thrown /\ last.adv # 0
    /\ LitOpens(last.adv)
    /\ format_ = LitStop(last.adv)
    /\ format_ <= Terminator
    /\ \A p \in format_..Len(format) : At(p) \in LeaderChars

\* C9 (as claimed): once the scan reaches a directive that the end of the
\* format string cuts short, result_ is -1.
C9_IncompleteDirectiveFails ==
    C9_Incomplete => result_ = -1

\* C10 (as claimed): an integral argument rendered where the character at
\* the conversion position is none of c d i u o x X p (the terminator
\* included) sets result_ to -1 and writes nothing.
C10_UnknownConversionFails ==
    (Fed("integral") /\ last.deferred = "none" /\ last.conv \notin IntegralConvs) =>
        /\ result_ = -1
        /\ out = last.pre.out

\* C11 (as claimed): an integral or a floating-point argument fed where %n
\* or %p is open sets result_ to -1 and writes nothing.
C11_PointerDirectiveRejectsNumbers ==
    ((Fed("integral") \/ Fed("double"))
       /\ last.deferred = "none"
       /\ last.conv \in {Chr["n"], Chr["p"]}) =>
        /\ result_ = -1
        /\ out = last.pre.out

\* the latest call took its integral argument as a deferred width or precision
C12_Stored ==
    Fed("integral") /\ last.deferred # "none" /\ ~last.thrown

\* the latest call rendered an integral argument, the cursor waiting behind
\* a '*' when it came
C12_RenderedNext ==
    /\ Fed("integral") /\ last.deferred = "none" /\ ~last.thrown
    /\ last.adv # 0
    /\ At(last.pre.format_ - 1) = Chr["*"]

C12_Example(fmt, star, i, text) ==
    (format = fmt /\ calls = 2 /\ C12_RenderedNext /\ last.arg = i
       /\ (IF At(last.pre.format_ - 2) = Chr["."]
           THEN last.pre.prec_ ELSE last.pre.width_) = star)
        => Rendered = text

\* C12: an integral argument that arrives at '*' or '.*' becomes width_ or
\* prec_ and the call ends there: nothing is written, result_ and the flags
\* read so far stay; the integral argument that follows is rendered with the
\* width and precision so stored.
C12_DeferredField ==
    /\ C12_Stored =>
          /\ out = last.pre.out
          /\ result_ = last.pre.result_
          /\ last.pre.flags_ \subseteq flags_
          /\ At(format_ - 1) = Chr["*"]
          /\ last.deferred = "width" =>
                (width_ = last.arg /\ prec_ = last.pre.prec_)
          /\ last.deferred = "prec" =>
                (prec_ = last.arg /\ At(format_ - 2) = Chr["."])
    /\ C12_RenderedNext =>
          /\ last.pre.flags_ \subseteq last.rf
          /\ ~isdigit(At(last.pre.format_)) => last.rw = last.pre.width_
          /\ At(last.pre.format_) # Chr["."] => last.rp = last.pre.prec_
    /\ C12_Example(S(<<"%", "*", "d">>), 5, 42, S(<<" ", " ", " ", "4", "2">>))
    /\ C12_Example(S(<<"%", ".", "*", "d">>), 3, 5, S(<<"0", "0", "5">>))
    /\ C12_Example(S(<<"%", "-", "*", "d">>), 5, 42, S(<<"4", "2", " ", " ", " ">>))

\* "%*d" was fed 5, then 42
C12_Witness ==
    /\ C12_RenderedNext
    /\ format = S(<<"%", "*", "d">>)
    /\ last.pre.width_ = 5
    /\ last.arg = 42
    /\ Rendered = S(<<" ", " ", " ", "4", "2">>)

\* the latest call wrote a C string under %s
C13_Applies ==
    Fed("cstring") /\ last.conv = Chr["s"] /\ ~last.thrown

\* the first min(length, precision) characters of the argument: all of them
\* when no precision was read
C13_Taken ==
    SubSeq(last.arg.chars, 1,
           IF last.rp # NoPrec /\ last.rp < Len(last.arg.chars)
           THEN last.rp ELSE Len(last.arg.chars))

C13_Padded(txt, w, flags) ==
    IF w <= Len(txt) THEN txt
    ELSE IF "leftJustify" \in flags THEN txt \o Rep(Chr[" "], w - Len(txt))
    ELSE Rep(Chr[" "], w - Len(txt)) \o txt

\* C13: a C string under %s is written as its first min(length, precision)
\* characters (all of them without a precision), padded with spaces to the
\* width: to the right under left-justify, to the left otherwise.
C13_StringField ==
    /\ C13_Applies => Rendered = C13_Padded(C13_Taken, last.rw, last.rf)
    /\ C13_Applies =>
          Len(Rendered) = (IF last.rw > Len(C13_Taken) THEN last.rw
                           ELSE Len(C13_Taken))
    /\ (C13_Applies /\ format = S(<<"%", ".", "3", "s">>)
          /\ last.arg.chars = S(<<"h", "e", "l", "l", "o">>))
        => Rendered = S(<<"h", "e", "l">>)

\* "%.3s" was fed "hello"
C13_Witness ==
    /\ C13_Applies
    /\ last.rp = 3
    /\ Len(last.arg.chars) = 5
    /\ Rendered = S(<<"h", "e", "l">>)

\* C14: a count-store pointer fed to %n stores result_ (the number of
\* characters written so far) into the pointee and writes nothing for the
\* directive; the call then scans on to the next directive, result_ growing
\* only by the literal text so scanned.  Fed to a conversion other than n or
\* p it sets result_ to -1 and leaves the pointee alone.
C14_CountStore ==
    /\ (Fed("countptr") /\ last.conv = Chr["n"]) =>
          /\ pointee = last.pre.result_
          /\ pointee = Len(last.pre.out)
          /\ ~last.thrown =>
                /\ Rendered = <<>>
                /\ At(last.adv - 1) = Chr["n"]
                /\ Scanned = LitText(last.adv)
                /\ format_ = LitStop(last.adv)
                /\ result_ = last.pre.result_ + Len(Scanned)
    /\ (Fed("countptr") /\ last.conv \notin {Chr["n"], Chr["p"]}) =>
          /\ result_ = -1
          /\ pointee = last.pre.pointee
          /\ out = last.pre.out

\* "ab%n%d" stored 2
C14_Witness ==
    /\ Fed("countptr")
    /\ last.conv = Chr["n"]
    /\ ~last.thrown
    /\ last.pre.pointee # 2
    /\ pointee = 2
    /\ result_ = 2

ConversionChars == IntegralConvs \cup FloatConvs \cup {Chr["s"], Chr["n"]}

\* a well-formed rest of a directive lies at the cursor: flags, width,
\* precision and length modifier, then a conversion character or a '*'
C15_WellFormed ==
    \E p \in format_..Len(format) :
        /\ At(p) \in ConversionChars \cup {Chr["*"]}
        /\ \A q \in format_..(p - 1) :
               At(q) \in LeaderChars \cup {Chr["h"], Chr["l"]}

\* the PrintfState awaits an argument with a directive open: the scan that
\* ended the latest call (or the constructor) stopped behind a %, or the
\* latest call stored a deferred width or precision
C15_Awaiting ==
    /\ alive /\ ~last.thrown /\ result_ # -1
    /\ C15_WellFormed
    /\ \/ last.deferred # "none"
       \/ last.adv # 0 /\ LitOpens(last.adv) /\ format_ = LitStop(last.adv)

\* C15 (as claimed): whenever the PrintfState awaits an argument with a
\* directive open, the cursor is on the directive's conversion character or
\* on a '*'.
C15_CursorAtConversion ==
    C15_Awaiting => At(format_) \in ConversionChars \cup {Chr["*"]}

\* the latest call rendered its argument under a directive whose '.' is
\* followed by neither digits nor '*': the conversion character, or the
\* length modifier in front of it, comes right behind the '.'
C16_BareDot ==
    /\ (Fed("integral") \/ Fed("cstring"))
    /\ last.deferred = "none" /\ ~last.thrown /\ result_ # -1
    /\ last.adv > 2
    /\ \/ At(last.adv - 2) = Chr["."]
       \/ /\ At(last.adv - 2) \in {Chr["h"], Chr["l"]}
          /\ At(last.adv - 3) = Chr["."]

C16_Example(fmt, op, arg, text) ==
    (format = fmt /\ calls = 1 /\ Fed(op) /\ last.arg = arg /\ ~last.thrown)
        => Rendered = text

\* C16 (as claimed): a bare '.' is the precision 0: the argument is rendered
\* with precision 0, so "%05.d" pads 5 with spaces and "%-5.s" writes no
\* character of the string.
C16_BareDotIsZero ==
    /\ C16_BareDot => last.rp = 0
    /\ C16_Example(S(<<"%", "0", "5", ".", "d">>), "integral", 5,
                   S(<<" ", " ", " ", " ", "5">>))
    /\ C16_Example(S(<<"%", "-", "5", ".", "s">>), "cstring",
                   [addr |-> 4096, chars |-> S(<<"h", "e", "l", "l", "o">>)],
                   S(<<" ", " ", " ", " ", " ">>))

\* the latest call rendered an integral argument under d, i, u, o, x or X
RenderedIntegral ==
    /\ Fed("integral")
    /\ last.deferred = "none"
    /\ ~last.thrown
    /\ result_ # -1
    /\ last.conv \in {Chr[c] : c \in {"d", "i", "u", "o", "x", "X"}}

\* its digits, and the zeros its precision puts in front of them
RenderedDigits ==
    Digits(last.conv, last.conv \in {Chr["d"], Chr["i"]}, last.ri)

RenderedZeros ==
    PrecZeros(last.conv, Len(RenderedDigits), last.rp)

\* the base prefix the claim gives value i under conversion conv
C17_Prefix(conv, i, flags, zeros) ==
    IF "alternateForm" \notin flags \/ i = 0 THEN <<>>
    ELSE IF conv = Chr["x"] THEN S(<<"0", "x">>)
    ELSE IF conv = Chr["X"] THEN S(<<"0", "X">>)
    ELSE IF conv = Chr["o"] /\ zeros = 0 THEN S(<<"0">>)
    ELSE <<>>

\* the field with that prefix behind the sign
C17_Field ==
    [ head |-> (IF SignChar(last.conv, last.conv \in {Chr["d"], Chr["i"]},
                            last.ri, last.rf) # 0
                THEN <<SignChar(last.conv, last.conv \in {Chr["d"], Chr["i"]},
                                last.ri, last.rf)>>
                ELSE <<>>)
               \o C17_Prefix(last.conv, last.ri, last.rf, RenderedZeros),
      rest |-> Rep(Chr["0"], RenderedZeros) \o RenderedDigits ]

\* C17: under '#', a nonzero value gets "0x" under x, "0X" under X, and one
\* '0' under o unless the precision already puts a zero in front; zero and
\* the decimal conversions get no prefix; the prefix counts in the length
\* that the width pads.
C17_AlternateForm ==
    /\ RenderedIntegral =>
          Rendered = C7_Padded(C17_Field, last.rw, last.rf, last.rp)
    /\ RenderedIntegral =>
          Len(Rendered) =
              (IF last.rw > Len(C17_Field.head) + Len(C17_Field.rest)
               THEN last.rw ELSE Len(C17_Field.head) + Len(C17_Field.rest))
    /\ C7_Example(S(<<"%", "#", "x">>), 255, S(<<"0", "x", "f", "f">>))
    /\ C7_Example(S(<<"%", "#", "x">>), 0, S(<<"0">>))
    /\ C7_Example(S(<<"%", "#", "d">>), 42, S(<<"4", "2">>))

\* "%#x" was fed 255
C17_Witness ==
    /\ RenderedIntegral
    /\ last.conv = Chr["x"]
    /\ "alternateForm" \in last.rf
    /\ last.ri = 255
    /\ Rendered = S(<<"0", "x", "f", "f">>)

\* the latest call rendered an integral argument under c
RenderedChar ==
    /\ Fed("integral")
    /\ last.deferred = "none"
    /\ ~last.thrown
    /\ result_ # -1
    /\ last.conv = Chr["c"]

\* the sign the claim gives value i under conversion conv
C18_Sign(conv, i, flags) ==
    IF conv \notin {Chr["d"], Chr["i"]} THEN <<>>
    ELSE IF i < 0 THEN S(<<"-">>)
    ELSE IF "showSignAlways" \in flags THEN S(<<"+">>)
    ELSE IF "blank" \in flags THEN S(<<" ">>)
    ELSE <<>>

\* the field with that sign in front of the base prefix
C18_Field ==
    [ head |-> C18_Sign(last.conv, last.ri, last.rf)
               \o C17_Prefix(last.conv, last.ri, last.rf, RenderedZeros),
      rest |-> Rep(Chr["0"], RenderedZeros) \o RenderedDigits ]

\* C18: d and i write one sign character at most: '-' for a negative value,
\* else '+' under the show-sign flag, else ' ' under the blank flag, else
\* none; u, o, x, X and c write none, whatever the flags.
C18_SignPriority ==
    /\ RenderedIntegral =>
          Rendered = C7_Padded(C18_Field, last.rw, last.rf, last.rp)
    /\ RenderedChar =>
          Rendered = C7_Padded([head |-> <<>>, rest |-> <<last.ri % 256>>],
                               last.rw, last.rf \ {"fillZeros"}, last.rp)
    /\ C7_Example(S(<<"%", "+", "d">>), 42, S(<<"+", "4", "2">>))
    /\ C7_Example(S(<<"%", "+", "d">>), 0 - 42, S(<<"-", "4", "2">>))
    /\ C7_Example(S(<<"%", " ", "+", "i">>), 42, S(<<"+", "4", "2">>))
    /\ C7_Example(S(<<"%", " ", "d">>), 42, S(<<" ", "4", "2">>))
    /\ C7_Example(S(<<"%", "+", "u">>), 42, S(<<"4", "2">>))
    /\ C7_Example(S(<<"%", " ", "c">>), 42, S(<<"*">>))

\* "%+d" was fed a negative value
C18_Witness ==
    /\ RenderedIntegral
    /\ "showSignAlways" \in last.rf
    /\ last.ri < 0
    /\ last.conv = Chr["d"]
    /\ Rendered = S(<<"-", "4", "2">>)

\* the value the claim has rendered for argument i
C19_Value(i, conv, flags) ==
    IF "forceShort" \in flags
       /\ conv \in {Chr["x"], Chr["X"], Chr["u"], Chr["o"]}
    THEN i % HalfWord ELSE i

\* C19: under the 'h' modifier x, X, u and o render the argument modulo
\* 2^16; d, i and c under 'h', and every conversion under 'l' or without a
\* modifier, render the argument as it is.
C19_ShortTruncation ==
    /\ (RenderedIntegral \/ RenderedChar) =>
          /\ last.ri = C19_Value(last.arg, last.conv, last.rf)
          /\ "forceShort" \in last.rf <=> At(last.adv - 2) = Chr["h"]
    /\ C7_Example(S(<<"%", "h", "x">>), 65541, S(<<"5">>))
    /\ C7_Example(S(<<"%", "h", "x">>), 0 - 42, S(<<"f", "f", "d", "6">>))
    /\ C7_Example(S(<<"%", "h", "u">>), 0 - 42, S(<<"6", "5", "4", "9", "4">>))
    /\ C7_Example(S(<<"%", "h", "d">>), 65541, S(<<"6", "5", "5", "4", "1">>))
    /\ C7_Example(S(<<"%", "l", "x">>), 65541, S(<<"1", "0", "0", "0", "5">>))
    /\ C7_Example(S(<<"%", "l", "u">>), 0 - 42,
                  S(<<"4", "2", "9", "4", "9", "6", "7", "2", "5", "4">>))
    /\ C7_Example(S(<<"%", "u">>), 65541, S(<<"6", "5", "5", "4", "1">>))

\* "%hx" was fed 65541
C19_Witness ==
    /\ RenderedIntegral
    /\ "forceShort" \in last.rf
    /\ last.conv = Chr["x"]
    /\ last.arg = 65541
    /\ last.ri = 5
    /\ Rendered = S(<<"5">>)

\* where the conversion character of the directive at p lies: behind the
\* flags, the width, the precision and the length modifier
RECURSIVE C20_ConvPos(_)
C20_ConvPos(p) ==
    IF At(p) \in LeaderChars \cup {Chr["h"], Chr["l"]} THEN C20_ConvPos(p + 1)
    ELSE p

\* the length of the directive the latest call met, from its % to its
\* conversion character
C20_DirectiveLen ==
    C20_ConvPos(last.pre.format_) + 2 - last.pre.format_

C20_Fails ==
    result_ = -1 /\ out = last.pre.out

\* C20 (as claimed): a floating-point argument is accepted under e, E, f, g
\* and G only; a directive that does not fit fmtBuf with its terminator, or a
\* rendered text that snprintf reports as not fitting resultBuf with its
\* terminator, sets result_ to -1 and writes nothing.
C20_FloatLimits ==
    (Fed("double") /\ ~last.thrown) =>
        /\ last.conv \notin FloatConvs => C20_Fails
        /\ C20_DirectiveLen + 1 > FmtBufSize => C20_Fails
        /\ last.stored + 1 > ResultBufSize => C20_Fails

\* C21 (as claimed): on the buffer device a write no longer than the
\* remaining capacity (the empty write and the constructor's literal text
\* included) does not throw, and leaves the capacity less by its length.
C21_FittingWriteSucceeds ==
    kind = "buffer" =>
        \A k \in 1..Len(last.writes) :
            (last.writes[k].room >= 0
               /\ last.writes[k].len <= last.writes[k].room) =>
                /\ ~last.writes[k].threw
                /\ k < Len(last.writes) =>
                      last.writes[k + 1].room
                          = last.writes[k].room - last.writes[k].len
                /\ k = Len(last.writes) =>
                      second = last.writes[k].room - last.writes[k].len

\* C22 (as claimed): after the constructor and after every call of
\* operator(), whatever the arguments and however many, the cursor lies
\* within the format string, its terminator included.
C22_CursorWithinFormat ==
    format_ >= 1 /\ format_ <= Terminator

\* C23 (as claimed): whenever a floating-point argument is consumed by a
\* PrintfState not yet failed, the character in front of the cursor is '%':
\* the assertion at the top of PrintFloatingPoint holds.
C23_PercentBeforeCursor ==
    Fed("double") =>
        /\ At(last.pre.format_ - 1) = Chr["%"]
        /\ "PrintFloatingPoint" \notin last.asserts

\* C24: ResetAll never runs with result_ at the error sentinel: its
\* assertion result_ != EOF holds at construction and in every call; a call
\* that sets the sentinel returns without scanning on.
C24_ResetAllAssertion ==
    /\ "ResetAll" \notin last.asserts
    /\ (result_ = EOF /\ last.pre.result_ # EOF) => last.adv = 0

\* the second call rendered its directive and scanned on, the first having
\* done the same
C24_Witness ==
    /\ calls = 2
    /\ Fed("cstring")
    /\ ~last.thrown
    /\ last.adv # 0
    /\ last.pre.result_ > 0
    /\ result_ > last.pre.result_

====
